---- MODULE Spec2Model ----
(***************************************************************************)
(* Model of examples/openclaw_genai_integration.py: PurdueGenAIProvider    *)
(* (an HTTP client of an OpenAI-style chat-completion API) and             *)
(* OpenClawAgent (a conversation history fed back to the provider on every *)
(* turn).  Texts are TLA+ strings; a Python dict is a record, a Python     *)
(* list a sequence (Python index 0 is index 1 here).                       *)
(***************************************************************************)
EXTENDS Integers, Sequences, FiniteSets, TLC

VARIABLES
    main_status,           \* where main() stands: "not_run", "aborted", "provider_ready"
    genai_provider,        \* <<>> or <<p>>: the PurdueGenAIProvider instance
    constructed,           \* an OpenClawAgent exists
    arg_system_prompt,     \* the system_prompt argument OpenClawAgent.__init__ got
    system_prompt,         \* self.system_prompt
    conversation_history,  \* self.conversation_history
    pc,                    \* "Idle", or "Awaiting": process is inside requests.post
    user_input,            \* the user_input argument of the latest process call
    request,               \* <<>> or <<r>>: the latest HTTP request sent
    http,                  \* what the latest HTTP request came to
    cc_out,                \* outcome of the latest chat_completion call
    result,                \* outcome of the latest process / list_models call
    log                    \* the process calls of this conversation: input, success, reply

vars == <<main_status, genai_provider, constructed, arg_system_prompt, system_prompt,
          conversation_history, pc, user_input, request, http, cc_out, result, log>>

-----------------------------------------------------------------------------
(* Bounds of the model *)

\* process calls per conversation (since construction or the last reset)
MaxCalls == 2

-----------------------------------------------------------------------------
(* Python values *)

\* Python's None, told apart from every text the model uses
None == "<None>"

\* truth value of a str-or-None
Truthy(v) == v # None /\ v # ""

\* a or b
Or(a, b) == IF Truthy(a) THEN a ELSE b

\* str(v), as an f-string formats v
Str(v) == IF v = None THEN "None" ELSE v

\* {} : the dict without keys
EmptyDict == [k \in {} |-> ""]

Last(s) == s[Len(s)]

\* sub occurs in s
Contains(s, sub) ==
    \E i \in 1..(Len(s) - Len(sub) + 1) : SubSeq(s, i, i + Len(sub) - 1) = sub

\* s starts with pre
StartsWith(s, pre) == Len(s) >= Len(pre) /\ SubSeq(s, 1, Len(pre)) = pre

\* how a call ends
Returned(v) == [kind |-> "returned", value |-> v]
Raised(type, text) == [kind |-> "raised", exc |-> [type |-> type, str |-> text]]
NoCall == [kind |-> "none"]

-----------------------------------------------------------------------------
(* Defaults of the source *)

DefaultBaseUrl == "https://genai.rcac.purdue.edu/api/v1"
DefaultModel == "llama3.2:latest"
DefaultSystemPrompt == "You are a helpful AI assistant."
DefaultApiKey == "sk-default"
DefaultMaxTokens == 1000
\* temperature 0.7, in tenths
DefaultTemperature == 7
ChatTimeout == 30
ModelsTimeout == 10

-----------------------------------------------------------------------------
(* The inputs the environment draws from *)

\* values of the PURDUE_GENAI_API_KEY environment variable (None: unset)
EnvKeys == {None, "", "sk-env"}

\* system_prompt arguments: absent, empty, present
SystemPrompts == {None, "", "S"}

UserInputs == {"Q1", "Q2"}

MaxTokensArgs == {DefaultMaxTokens, 150}

StatusCodes == {200, 500}

BodyHello == "{\"choices\":[{\"message\":{\"content\":\"hello\"}}]}"
BodyEmptyContent == "{\"choices\":[{\"message\":{\"content\":\"\"}}]}"
BodyNoContent == "{\"choices\":[{\"message\":{}}]}"
BodyNoMessage == "{\"choices\":[{}]}"
BodyNoChoice == "{\"choices\":[]}"
BodyEmptyObject == "{}"
BodyModels == "{\"data\":[{\"id\":\"m1\"},{\"id\":\"m2\"}]}"
BodyModelNoId == "{\"data\":[{}]}"
BodyServerError == "server error"

\* response bodies that are JSON documents
JSONBodies == {BodyHello, BodyEmptyContent, BodyNoContent, BodyNoMessage, BodyNoChoice,
               BodyEmptyObject, BodyModels, BodyModelNoId}

Bodies == JSONBodies \cup {BodyServerError}

\* bodies a server sends along with a status other than 200
ErrorBodies == {BodyServerError, BodyEmptyObject}

\* what requests.post / requests.get can come to: a response, or no response
Responses ==
    {[kind |-> "response", status_code |-> s, text |-> b] :
        <<s, b>> \in {x \in StatusCodes \X Bodies : x[1] = 200 \/ x[2] \in ErrorBodies}}

TransportErrors ==
    {[kind |-> "error", exc |-> [type |-> "ConnectionError", str |-> "Connection refused"]],
     [kind |-> "error", exc |-> [type |-> "Timeout", str |-> "Read timed out."]]}

HttpOutcomes == Responses \cup TransportErrors

Pending == [kind |-> "pending"]

-----------------------------------------------------------------------------
(* response.json() *)

\* the document a JSON body text denotes
ParseJSON(text) ==
    CASE text = BodyHello -> [choices |-> <<[message |-> [content |-> "hello"]]>>]
      [] text = BodyEmptyContent -> [choices |-> <<[message |-> [content |-> ""]]>>]
      [] text = BodyNoContent -> [choices |-> <<[message |-> EmptyDict]>>]
      [] text = BodyNoMessage -> [choices |-> <<EmptyDict>>]
      [] text = BodyNoChoice -> [choices |-> <<>>]
      [] text = BodyEmptyObject -> EmptyDict
      [] text = BodyModels -> [data |-> <<[id |-> "m1"], [id |-> "m2"]>>]
      [] text = BodyModelNoId -> [data |-> <<EmptyDict>>]

\* response.json(): the parsed document, or JSONDecodeError
json(response) ==
    IF response.text \in JSONBodies
    THEN Returned(ParseJSON(response.text))
    ELSE Raised("JSONDecodeError", "Expecting value: line 1 column 1 (char 0)")

-----------------------------------------------------------------------------
(* PurdueGenAIProvider *)

\* api_key, base_url and model arguments: the key absent, empty, present
ProviderArgs == {<<None, None, None>>, <<"", None, None>>,
                 <<"sk-1", "https://api.example/v1", "m1">>}

\* PurdueGenAIProvider.__init__: the instance it builds
PurdueGenAIProvider(api_key, base_url, model) ==
    [api_key |-> api_key,
     base_url |-> Or(base_url, DefaultBaseUrl),
     model |-> Or(model, DefaultModel),
     headers |-> [Authorization |-> "Bearer " \o Str(api_key),
                  ContentType |-> "application/json"]]

\* a faulty ChatRequest: only the newest message is sent, not the history
ChatRequest_NewestOnly(self, messages, max_tokens, temperature) ==
    [op |-> "chat_completion",
     method |-> "POST",
     url |-> self.base_url \o "/chat/completions",
     headers |-> self.headers,
     json |-> [model |-> self.model, messages |-> <<Last(messages)>>,
               max_tokens |-> max_tokens, temperature |-> temperature],
     timeout |-> ChatTimeout]

\* the POST chat_completion sends
ChatRequest(self, messages, max_tokens, temperature) ==
    [op |-> "chat_completion",
     method |-> "POST",
     url |-> self.base_url \o "/chat/completions",
     headers |-> self.headers,
     json |-> [model |-> self.model, messages |-> messages,
               max_tokens |-> max_tokens, temperature |-> temperature],
     timeout |-> ChatTimeout]

\* the GET list_models sends
ModelsRequest(self) ==
    [op |-> "list_models",
     method |-> "GET",
     url |-> self.base_url \o "/models",
     headers |-> self.headers,
     timeout |-> ModelsTimeout]

\* a faulty chat_completion: it rejects a parsed body that has no choices
chat_completion_ChecksChoices(h) ==
    IF h.kind = "error"
    THEN [kind |-> "raised", exc |-> h.exc]
    ELSE IF h.status_code = 200
         THEN LET body == json(h)
              IN  IF body.kind = "returned" /\ "choices" \notin DOMAIN body.value
                  THEN Raised("Exception", "Malformed response")
                  ELSE body
         ELSE Raised("Exception",
                     "API Error: " \o ToString(h.status_code) \o " - " \o h.text)

\* chat_completion from the point requests.post ends with h
chat_completion(h) ==
    IF h.kind = "error"
    THEN [kind |-> "raised", exc |-> h.exc]
    ELSE IF h.status_code = 200
         THEN json(h)
         ELSE Raised("Exception",
                     "API Error: " \o ToString(h.status_code) \o " - " \o h.text)

\* [model["id"] for model in models]
ModelIds(models) ==
    IF \E i \in DOMAIN models : "id" \notin DOMAIN models[i]
    THEN Raised("KeyError", "'id'")
    ELSE Returned([i \in DOMAIN models |-> models[i].id])

\* list_models from the point requests.get ends with h
list_models(h) ==
    IF h.kind = "error"
    THEN [kind |-> "raised", exc |-> h.exc]
    ELSE IF h.status_code = 200
         THEN LET body == json(h)
              IN  IF body.kind = "raised"
                  THEN body
                  ELSE IF "data" \notin DOMAIN body.value
                       THEN Raised("KeyError", "'data'")
                       ELSE ModelIds(body.value.data)
         ELSE Raised("Exception", "API Error: " \o ToString(h.status_code))

-----------------------------------------------------------------------------
(* OpenClawAgent *)

Message(role, content) == [role |-> role, content |-> content]

\* conversation_history as __init__ leaves it
InitHistory(prompt_arg) ==
    IF Truthy(prompt_arg) THEN <<Message("system", prompt_arg)>> ELSE <<>>

\* a faulty ResetHistory: the system prompt is not put back
ResetHistory_Empty(self_system_prompt) == <<>>

\* conversation_history as reset_conversation leaves it
ResetHistory(self_system_prompt) ==
    IF Truthy(self_system_prompt)
    THEN <<Message("system", self_system_prompt)>>
    ELSE <<>>

\* a faulty AddUserMessage: the user message is not recorded
AddUserMessage_Skipped(history, input) == history

\* process, before the provider is called: the user message is recorded
AddUserMessage(history, input) == Append(history, Message("user", input))

\* result["choices"][0]["message"]["content"]
ExtractContent(res) ==
    IF "choices" \notin DOMAIN res
    THEN Raised("KeyError", "'choices'")
    ELSE IF 1 \notin DOMAIN res.choices
         THEN Raised("IndexError", "list index out of range")
         ELSE IF "message" \notin DOMAIN res.choices[1]
              THEN Raised("KeyError", "'message'")
              ELSE IF "content" \notin DOMAIN res.choices[1].message
                   THEN Raised("KeyError", "'content'")
                   ELSE Returned(res.choices[1].message.content)

\* a faulty OnReply: the reply is returned but not recorded
OnReply_NotRecorded(history, assistant_message) ==
    [history |-> history,
     out |-> Returned(assistant_message),
     ok |-> TRUE,
     reply |-> assistant_message]

\* process, the reply extracted: it is recorded and returned
OnReply(history, assistant_message) ==
    [history |-> Append(history, Message("assistant", assistant_message)),
     out |-> Returned(assistant_message),
     ok |-> TRUE,
     reply |-> assistant_message]

\* a faulty OnException: the error text is recorded as the assistant's reply
OnException_RecordsError(history, e) ==
    [history |-> Append(history, Message("assistant", "Error: " \o e.str)),
     out |-> Returned("Error: " \o e.str),
     ok |-> FALSE,
     reply |-> None]

\* a faulty OnException: the exception goes on to the caller
OnException_Reraises(history, e) ==
    [history |-> history,
     out |-> [kind |-> "raised", exc |-> e],
     ok |-> FALSE,
     reply |-> None]

\* process, except Exception as e
OnException(history, e) ==
    [history |-> history,
     out |-> Returned("Error: " \o e.str),
     ok |-> FALSE,
     reply |-> None]

\* process, the try block from the point chat_completion ends with cc
ProcessTry(history, cc) ==
    IF cc.kind = "raised"
    THEN OnException(history, cc.exc)
    ELSE LET content == ExtractContent(cc.value)
         IN  IF content.kind = "raised"
             THEN OnException(history, content.exc)
             ELSE OnReply(history, content.value)

-----------------------------------------------------------------------------
(* The state after nothing has run *)

Init ==
    /\ main_status = "not_run"
    /\ genai_provider = <<>>
    /\ constructed = FALSE
    /\ arg_system_prompt = None
    /\ system_prompt = None
    /\ conversation_history = <<>>
    /\ pc = "Idle"
    /\ user_input = None
    /\ request = <<>>
    /\ http = [kind |-> "none"]
    /\ cc_out = NoCall
    /\ result = [call |-> "none", out |-> NoCall]
    /\ log = <<>>

-----------------------------------------------------------------------------
(* Operations *)

\* os.getenv("PURDUE_GENAI_API_KEY", default)
GetEnvKey(env) == IF env = None THEN DefaultApiKey ELSE env

\* main(), up to the provider: the key is read, checked, and the provider built
Main(env) ==
    /\ main_status = "not_run"
    /\ genai_provider = <<>>
    /\ IF ~Truthy(GetEnvKey(env))
       THEN /\ main_status' = "aborted"
            /\ UNCHANGED genai_provider
       ELSE /\ main_status' = "provider_ready"
            /\ genai_provider' =
                   <<PurdueGenAIProvider(GetEnvKey(env), DefaultBaseUrl, DefaultModel)>>
    /\ UNCHANGED <<constructed, arg_system_prompt, system_prompt, conversation_history,
                   pc, user_input, request, http, cc_out, result, log>>

\* PurdueGenAIProvider(api_key, base_url, model), called by any client
NewProvider(api_key, base_url, model) ==
    /\ genai_provider = <<>>
    /\ genai_provider' = <<PurdueGenAIProvider(api_key, base_url, model)>>
    /\ UNCHANGED <<main_status, constructed, arg_system_prompt, system_prompt,
                   conversation_history, pc, user_input, request, http, cc_out,
                   result, log>>

\* genai_provider.list_models(): the request, its outcome h, the result
\* (called as main calls it: once the provider is built, before the agent is)
ListModels(h) ==
    /\ genai_provider # <<>>
    /\ pc = "Idle"
    /\ ~constructed
    /\ request' = <<ModelsRequest(genai_provider[1])>>
    /\ http' = h
    /\ result' = [call |-> "list_models", out |-> list_models(h)]
    /\ UNCHANGED <<main_status, genai_provider, constructed, arg_system_prompt,
                   system_prompt, conversation_history, pc, user_input, cc_out, log>>

\* OpenClawAgent(name, genai_provider, system_prompt)
NewAgent(prompt_arg) ==
    /\ genai_provider # <<>>
    /\ ~constructed
    /\ constructed' = TRUE
    /\ arg_system_prompt' = prompt_arg
    /\ system_prompt' = Or(prompt_arg, DefaultSystemPrompt)
    /\ conversation_history' = InitHistory(prompt_arg)
    /\ UNCHANGED <<main_status, genai_provider, pc, user_input, request, http, cc_out,
                   result, log>>

\* agent.process(input, max_tokens): the user message, then the request goes out
ProcessCall(input, max_tokens) ==
    /\ constructed
    /\ pc = "Idle"
    /\ Len(log) < MaxCalls
    /\ user_input' = input
    /\ conversation_history' = AddUserMessage(conversation_history, input)
    /\ request' = <<ChatRequest(genai_provider[1], conversation_history',
                                max_tokens, DefaultTemperature)>>
    /\ http' = Pending
    /\ pc' = "Awaiting"
    /\ UNCHANGED <<main_status, genai_provider, constructed, arg_system_prompt,
                   system_prompt, cc_out, result, log>>

\* agent.process, from the point requests.post ends with h, to its return
ProcessReturn(h) ==
    /\ pc = "Awaiting"
    /\ http' = h
    /\ cc_out' = chat_completion(h)
    /\ LET done == ProcessTry(conversation_history, cc_out')
       IN  /\ conversation_history' = done.history
           /\ result' = [call |-> "process", out |-> done.out]
           /\ log' = Append(log, [user_input |-> user_input, ok |-> done.ok,
                                  reply |-> done.reply])
    /\ pc' = "Idle"
    /\ UNCHANGED <<main_status, genai_provider, constructed, arg_system_prompt,
                   system_prompt, user_input, request>>

\* agent.reset_conversation()
ResetConversation ==
    /\ constructed
    /\ pc = "Idle"
    /\ conversation_history' = ResetHistory(system_prompt)
    /\ log' = <<>>
    /\ UNCHANGED <<main_status, genai_provider, constructed, arg_system_prompt,
                   system_prompt, pc, user_input, request, http, cc_out, result>>

Next ==
    \/ \E env \in EnvKeys : Main(env)
    \/ \E a \in ProviderArgs : NewProvider(a[1], a[2], a[3])
    \/ \E h \in HttpOutcomes : ListModels(h)
    \/ \E s \in SystemPrompts : NewAgent(s)
    \/ \E u \in UserInputs, m \in MaxTokensArgs : ProcessCall(u, m)
    \/ \E h \in HttpOutcomes : ProcessReturn(h)
    \/ ResetConversation

Spec == Init /\ [][Next]_vars

-----------------------------------------------------------------------------
(* Vocabulary of the properties *)

\* h is a status-200 response whose body holds choices[0].message.content
HasContent(h) ==
    /\ h.kind = "response"
    /\ h.status_code = 200
    /\ h.text \in JSONBodies
    /\ LET doc == ParseJSON(h.text)
       IN  /\ "choices" \in DOMAIN doc
           /\ Len(doc.choices) > 0
           /\ "message" \in DOMAIN doc.choices[1]
           /\ "content" \in DOMAIN doc.choices[1].message

\* choices[0].message.content of such a response
ContentOf(h) == ParseJSON(h.text).choices[1].message.content

\* the three provider failures: no response, a status other than 200, a
\* status-200 body without choices[0].message.content
TransportFailure(h) == h.kind = "error"
StatusFailure(h) == h.kind = "response" /\ h.status_code # 200
ShapeFailure(h) == h.kind = "response" /\ h.status_code = 200 /\ ~HasContent(h)
ProviderFailed(h) == TransportFailure(h) \/ StatusFailure(h) \/ ShapeFailure(h)

\* process has returned and no reset followed: http is what its request came to
ProcessDone == pc = "Idle" /\ result.call = "process" /\ log # <<>>

\* every call of this conversation succeeded
AllOk(l) == \A i \in 1..Len(l) : l[i].ok

\* the turns of the calls l, in order: user then assistant for each
RECURSIVE Turns(_)
Turns(l) ==
    IF l = <<>>
    THEN <<>>
    ELSE Turns(SubSeq(l, 1, Len(l) - 1))
         \o <<Message("user", Last(l).user_input), Message("assistant", Last(l).reply)>>

\* the agent was constructed with a system prompt
WithPrompt == constructed /\ Truthy(arg_system_prompt)

-----------------------------------------------------------------------------
(* C1 *)

\* C1: when the provider call succeeds with choices[0].message.content = t,
\* process leaves the history equal to the history H of its entry, followed by
\* one user message (the input), followed by one assistant message with content
\* t, and returns exactly t, the content of the last history element.
C1_SuccessAppendsUserThenAssistant ==
    [][/\ (pc = "Idle" /\ pc' = "Awaiting")
            => conversation_history'
                   = Append(conversation_history, Message("user", user_input'))
       /\ (pc = "Awaiting" /\ HasContent(http'))
            => /\ pc' = "Idle"
               /\ Last(conversation_history) = Message("user", user_input)
               /\ conversation_history'
                      = Append(conversation_history,
                               Message("assistant", ContentOf(http')))
               /\ result' = [call |-> "process", out |-> Returned(ContentOf(http'))]
               /\ result'.out.value = Last(conversation_history').content]_vars

\* a second successful call has returned: H held a whole earlier turn
C1_Witness ==
    /\ ProcessDone
    /\ HasContent(http)
    /\ Len(log) = 2
    /\ log[1].ok
    /\ Len(conversation_history) = 5

-----------------------------------------------------------------------------
(* C2 *)

\* C2: when the provider call fails (no response, a status other than 200, or
\* a status-200 body without choices/message/content), process leaves the
\* history equal to the history of its entry plus the one user message, appends
\* no assistant message, and the agent is Idle again; the process call that
\* follows is taken and records its user message like any call from Idle.
C2_FailureKeepsOnlyUserMessage ==
    [][/\ (pc = "Awaiting" /\ ProviderFailed(http'))
            => /\ pc' = "Idle"
               /\ conversation_history' = conversation_history
               /\ Last(conversation_history') = Message("user", user_input)
               /\ log' = Append(log, [user_input |-> user_input, ok |-> FALSE,
                                      reply |-> None])
       /\ (pc = "Idle" /\ pc' = "Awaiting" /\ log # <<>> /\ ~Last(log).ok)
            => /\ conversation_history'
                      = Append(conversation_history, Message("user", user_input'))
               /\ request'[1].json.messages = conversation_history']_vars

\* a call has failed on a status-200 body without content, after an earlier turn
C2_Witness ==
    /\ ProcessDone
    /\ ShapeFailure(http)
    /\ Len(log) = 2
    /\ log[1].ok
    /\ ~log[2].ok
    /\ Len(conversation_history) = 4

-----------------------------------------------------------------------------
(* C3 *)

\* C3: process never raises: every process call ends by returning a text, and
\* for each of the three provider failures the text returned starts with
\* "Error: ".
C3_ProcessReturnsErrorText ==
    /\ result.call = "process" => result.out.kind = "returned"
    /\ (ProcessDone /\ ProviderFailed(http))
            => /\ StartsWith(result.out.value, "Error: ")
               /\ cc_out.kind = "raised"
                      => result.out.value = "Error: " \o cc_out.exc.str

\* process has returned after a status other than 200
C3_Witness ==
    /\ ProcessDone
    /\ StatusFailure(http)
    /\ result.out = Returned("Error: API Error: 500 - server error")

-----------------------------------------------------------------------------
(* C4 *)

\* C4: after reset_conversation the history is empty when the agent was
\* constructed without a system prompt, and holds just the configured system
\* prompt when it was constructed with one: the history the agent had right
\* after construction.
C4_ResetRestoresConstructionHistory ==
    [][ResetConversation
            => conversation_history'
                   = IF Truthy(arg_system_prompt)
                     THEN <<Message("system", arg_system_prompt)>>
                     ELSE <<>>]_vars

-----------------------------------------------------------------------------
(* C5 *)

\* C5: for an agent constructed with system prompt S, after n successful
\* process calls with inputs u1..un and replies a1..an the history is
\* [S, u1, a1, ..., un, an], and the messages the k-th call hands to
\* chat_completion are the whole history [S, u1, a1, ..., uk] of that moment.
C5_HistoryIsTheTurnsInOrder ==
    (WithPrompt /\ AllOk(log))
        => LET S == Message("system", arg_system_prompt)
           IN  /\ pc = "Idle" => conversation_history = <<S>> \o Turns(log)
               /\ pc = "Awaiting"
                    => /\ conversation_history
                              = (<<S>> \o Turns(log)) \o <<Message("user", user_input)>>
                       /\ request[1].op = "chat_completion"
                       /\ request[1].json.messages = conversation_history

\* the second call of a conversation whose first call succeeded is with the provider
C5_Witness ==
    /\ WithPrompt
    /\ pc = "Awaiting"
    /\ Len(log) = 1
    /\ log[1].ok
    /\ Len(request[1].json.messages) = 4

-----------------------------------------------------------------------------
(* C6 *)

\* C6: no PurdueGenAIProvider instance has a missing (absent or empty) api_key,
\* and no request is sent with the credential missing.
C6_NoProviderWithoutCredential ==
    /\ genai_provider # <<>> => Truthy(genai_provider[1].api_key)
    /\ request # <<>>
            => request[1].headers.Authorization \notin {"Bearer ", "Bearer None"}

-----------------------------------------------------------------------------
(* C7 *)

\* C7: a response with a status other than 200 makes chat_completion and
\* list_models fail with an error that carries the status and the body text.
C7_StatusErrorCarriesStatusAndBody ==
    (pc = "Idle" /\ request # <<>> /\ StatusFailure(http))
        => LET out == IF request[1].op = "chat_completion" THEN cc_out ELSE result.out
           IN  /\ out.kind = "raised"
               /\ Contains(out.exc.str, ToString(http.status_code))
               /\ Contains(out.exc.str, http.text)

-----------------------------------------------------------------------------
(* C8 *)

-----------------------------------------------------------------------------
(* C9 *)

\* C9: for an agent constructed with a system prompt S, the history is never
\* empty, its first element is the system message S, and no other element has
\* role system.
C9_SystemPromptStaysFirst ==
    WithPrompt
        => /\ conversation_history # <<>>
           /\ conversation_history[1] = Message("system", arg_system_prompt)
           /\ \A i \in 2..Len(conversation_history) :
                  conversation_history[i].role # "system"

\* a conversation begun anew, with a failed and a successful call
C9_Witness ==
    /\ WithPrompt
    /\ pc = "Idle"
    /\ Len(log) = 2
    /\ ~log[1].ok
    /\ log[2].ok
    /\ Len(conversation_history) = 4

-----------------------------------------------------------------------------
(* C10 *)

\* C10, as claimed: no two adjacent history elements both have role user and
\* none both have role assistant, whatever mix of successful and failed calls.
C10_StrictAlternation ==
    \A i \in 1..(Len(conversation_history) - 1) :
        /\ ~(conversation_history[i].role = "user"
                /\ conversation_history[i + 1].role = "user")
        /\ ~(conversation_history[i].role = "assistant"
                /\ conversation_history[i + 1].role = "assistant")

\* C10, amended: every assistant message directly follows a user message, so
\* no two adjacent elements both have role assistant; two adjacent elements
\* both have role user only when a call of this conversation has failed, and
\* as many user messages lack their assistant message as calls have failed or
\* are under way.
C10_AssistantFollowsUser ==
    LET h == conversation_history
        Users == {i \in 1..Len(h) : h[i].role = "user"}
        Unanswered == {i \in Users : i = Len(h) \/ h[i + 1].role # "assistant"}
        Failed == {k \in 1..Len(log) : ~log[k].ok}
    IN  /\ \A i \in 1..Len(h) :
               h[i].role = "assistant" => (i > 1 /\ h[i - 1].role = "user")
        /\ \A i \in 1..(Len(h) - 1) :
               (h[i].role = "user" /\ h[i + 1].role = "user") => ~AllOk(log)
        /\ Cardinality(Unanswered)
               = Cardinality(Failed) + (IF pc = "Awaiting" THEN 1 ELSE 0)

\* two user messages side by side: a failed call, then a successful one
C10_Witness ==
    /\ pc = "Idle"
    /\ Len(conversation_history) >= 3
    /\ \E i \in 1..(Len(conversation_history) - 2) :
           /\ conversation_history[i].role = "user"
           /\ conversation_history[i + 1].role = "user"
           /\ conversation_history[i + 2].role = "assistant"

====
